---- MODULE Spec2Model ----
(***************************************************************************)
(* PDF2MindMap (src/app.py): the upload -> extract -> outline -> render -> *)
(* questions pipeline of main(), with extract_text_from_pdf modelled step  *)
(* by step (every library call may raise), and the string functions        *)
(* (strip, join, split, replace, slicing) computed on sequences of         *)
(* one-character strings.                                                  *)
(***************************************************************************)
EXTENDS Integers, Sequences, FiniteSets, TLC

\* ---------------------------------------------------------------- bounds
MaxPages == 2      \* pages of an uploaded PDF
MaxLen == 1        \* characters of one page's embedded text
MaxOcrLen == 1     \* characters of one image's OCR output
MaxReply == 1      \* characters of a model reply within a whole script run
MaxFnReply == 3    \* characters of a model reply given to one function alone
MaxTmp == 2        \* temporary files left on disk before the reruns stop
MaxMd == 4         \* characters of a markdown outline given to the renderer
MaxExtra == 2      \* characters beyond max_chars of the longest input text

\* --------------------------------------------------------------- strings
\* A Python str is a sequence of one-character strings.
Chars == {"a", "b", "\n"}
Whitespace == {" ", "\n"}
\* The grave accent (U+0060) cannot be written inside a TLA+ string; this
\* one-character string stands for it.
Backtick == "<U+0060>"
MdChars == {Backtick, "$", "{", "\\", "a"}

RECURSIVE StringsOver(_, _)
StringsOver(alphabet, n) ==
    IF n = 0 THEN {<<>>}
    ELSE LET shorter == StringsOver(alphabet, n - 1)
         IN  shorter \cup {Append(s, c) : s \in shorter, c \in alphabet}

\* Python None, a str and a list as tagged values.
None == [kind |-> "None", val |-> <<>>]
Str(s) == [kind |-> "str", val |-> s]
List(l) == [kind |-> "list", val |-> l]

\* str.strip(): leading and trailing whitespace removed.
RECURSIVE lstrip(_)
lstrip(s) ==
    IF s # <<>> /\ Head(s) \in Whitespace THEN lstrip(Tail(s)) ELSE s

RECURSIVE rstrip(_)
rstrip(s) ==
    IF s # <<>> /\ s[Len(s)] \in Whitespace
    THEN rstrip(SubSeq(s, 1, Len(s) - 1))
    ELSE s

strip(s) == rstrip(lstrip(s))

\* sep.join(parts)
RECURSIVE join(_, _)
join(sep, parts) ==
    IF parts = <<>> THEN <<>>
    ELSE IF Len(parts) = 1 THEN parts[1]
    ELSE parts[1] \o sep \o join(sep, Tail(parts))

\* s.startswith(old)
startswith(s, old) ==
    Len(s) >= Len(old) /\ SubSeq(s, 1, Len(old)) = old

\* s.replace(old, new): left to right, non-overlapping (old is not empty).
RECURSIVE replace(_, _, _)
replace(s, old, new) ==
    IF s = <<>> THEN <<>>
    ELSE IF startswith(s, old)
    THEN new \o replace(SubSeq(s, Len(old) + 1, Len(s)), old, new)
    ELSE <<Head(s)>> \o replace(Tail(s), old, new)

\* s.split("\n"): always at least one entry.
RECURSIVE split(_, _)
split(s, cur) ==
    IF s = <<>> THEN <<cur>>
    ELSE IF Head(s) = "\n" THEN <<cur>> \o split(Tail(s), <<>>)
    ELSE split(Tail(s), Append(cur, Head(s)))

split_lines(s) == split(s, <<>>)

\* the pages whose extract_text() is truthy, in page order
RECURSIVE nonempty_pages(_)
nonempty_pages(pages) ==
    IF pages = <<>> THEN <<>>
    ELSE IF Head(pages) # <<>>
    THEN <<Head(pages)>> \o nonempty_pages(Tail(pages))
    ELSE nonempty_pages(Tail(pages))

\* "\n".join(page.extract_text() for page in pdf_reader.pages if page.extract_text())
embedded_text(pages) == join(<<"\n">>, nonempty_pages(pages))

\* ------------------------------------------------------- inference calls
max_chars == 30000
Ellipsis == <<".", ".", ".">>

\* prompt.format(text=text): the fixed template around the text, verbatim.
MindmapPrompt(text) == <<"[mindmap prompt head]">> \o text \o <<"[mindmap prompt tail]">>
QuestionsPrompt(text) == <<"[questions prompt head]">> \o text \o <<"[questions prompt tail]">>
NoPrompt == <<>>

\* What the inference service does with one request: generate_content() or
\* response.text raises, response.text is None, or response.text is a string.
\* (genai.GenerativeModel(name), lines 61 and 163, only builds a client object.)
ResponsesUpTo(n) ==
    {[kind |-> k, val |-> <<>>] : k \in {"call_raise", "none"}}
        \cup {[kind |-> "text", val |-> s] : s \in StringsOver(Chars, n)}

Responses == ResponsesUpTo(MaxReply)

\* (variant: the cap test written >= instead of >)
truncate_text_ge(text) ==
    IF Len(text) >= max_chars
    THEN SubSeq(text, 1, max_chars) \o Ellipsis
    ELSE text

\* lines 63-64: the text that goes into the prompt.
truncate_text(text) ==
    IF Len(text) > max_chars
    THEN SubSeq(text, 1, max_chars) \o Ellipsis
    ELSE text

\* lines 63 and 65: the st.warning of the truncation.
truncation_notice(text) ==
    IF Len(text) > max_chars THEN {"warning: text was truncated"} ELSE {}

\* lines 91 and 174: not response.text or not response.text.strip()
reply_blank(response) ==
    response.kind = "none" \/ response.val = <<>> \/ strip(response.val) = <<>>

\* (variant: the reply returned without the strip of line 94)
mindmap_return_nostrip(response) ==
    IF reply_blank(response) THEN None ELSE Str(response.val)

\* lines 91-94: what create_mindmap_markdown returns for a reply.
mindmap_return(response) ==
    IF reply_blank(response) THEN None ELSE Str(strip(response.val))

\* (variant: the reply split without the strip of line 177)
questions_return_nostrip(response) ==
    IF reply_blank(response)
    THEN None
    ELSE List(split_lines(response.val))

\* lines 174-177: what generate_questions_from_text returns for a reply.
questions_return(response) ==
    IF reply_blank(response)
    THEN None
    ELSE List(split_lines(strip(response.val)))

\* create_mindmap_markdown(text) against one response of the service:
\* the value returned, the prompt submitted and the messages emitted.
create_mindmap_markdown(text, response) ==
    IF response.kind = "call_raise"
    THEN [ret |-> None, prompt |-> MindmapPrompt(truncate_text(text)),
          raised |-> TRUE,
          st |-> truncation_notice(text) \cup {"error: generating mindmap"}]
    ELSE [ret |-> mindmap_return(response),
          prompt |-> MindmapPrompt(truncate_text(text)),
          raised |-> FALSE,
          st |-> truncation_notice(text) \cup
                 (IF reply_blank(response) THEN {"error: empty response"} ELSE {})]

\* generate_questions_from_text(text) against one response of the service.
generate_questions_from_text(text, response) ==
    IF response.kind = "call_raise"
    THEN [ret |-> None, prompt |-> QuestionsPrompt(text), raised |-> TRUE,
          st |-> {"error: generating questions"}]
    ELSE [ret |-> questions_return(response),
          prompt |-> QuestionsPrompt(text), raised |-> FALSE,
          st |-> IF reply_blank(response) THEN {"error: empty response"} ELSE {}]

\* ------------------------------------------------------------- rendering
\* The f-string of create_markmap_html: the document up to and including the
\* opening grave accent of the JS template literal, and from its closing one.
HtmlHead == <<"[html up to: const markdown = ]", Backtick>>
HtmlTail == <<Backtick, "[html from: ; const transformer]">>

escape_markdown(markdown_content) ==
    replace(replace(markdown_content, <<Backtick>>, <<"\\", Backtick>>),
            <<"$", "{">>, <<"\\", "$", "{">>)

create_markmap_html(markdown_content) ==
    HtmlHead \o escape_markdown(markdown_content) \o HtmlTail

\* ----------------------------------------------------------------- state
VARIABLES
    pc,               \* where the script run is
    API_KEY,          \* TRUE when GOOGLE_API_KEY is set in the environment
    tmpfiles,         \* names of the temporary files that exist on disk
    uploaded_file,    \* main: the upload widget's value
    temp_file,        \* extract_text_from_pdf: file opened by the with block
    temp_file_path,   \* extract_text_from_pdf: 0 while the name is unbound
    ex_text,          \* extract_text_from_pdf: text
    images,           \* extract_text_from_pdf: images (page numbers)
    ocr_text,         \* extract_text_from_pdf: ocr_text
    ocr_calls,        \* pages handed to image_to_string, in call order
    ocr_outs,         \* what image_to_string returned, in call order
    rasterized,       \* convert_from_path calls of this invocation
    step_raised,      \* the step of the current function that raised, or ""
    ret,              \* the value the function left returns
    escaped,          \* the exception that left the function, or ""
    text,             \* main: text
    markdown_content, \* main: markdown_content
    html_content,     \* main: html_content
    questions,        \* main: questions
    prompt,           \* the prompt of the last inference request
    response,         \* the service's answer to it
    st,               \* messages emitted during this run
    calls             \* stages entered during this run, in order

vars == <<pc, API_KEY, tmpfiles, uploaded_file, temp_file,
          temp_file_path, ex_text, images, ocr_text, ocr_calls, ocr_outs,
          rasterized, step_raised, ret, escaped, text, markdown_content,
          html_content, questions, prompt, response, st, calls>>

extractLocals == <<temp_file, temp_file_path, ex_text, images, ocr_text,
                   ocr_calls, ocr_outs, rasterized>>
frameVars == <<step_raised, ret, escaped>>
mainLocals == <<text, markdown_content, html_content, questions>>
callVars == <<prompt, response>>

NoUpload == [kind |-> "None", pages |-> <<>>]
Consumed == [kind |-> "read", pages |-> <<>>]
PageTexts == StringsOver(Chars, MaxLen)
OcrTexts == StringsOver(Chars, MaxOcrLen)
Pdfs == UNION {[1..n -> PageTexts] : n \in 0..MaxPages}
Uploads == {NoUpload} \cup {[kind |-> "pdf", pages |-> p] : p \in Pdfs}
NoResponse == [kind |-> "", val |-> <<>>]

\* The values every run of the script starts from.
FreshRun ==
    /\ pc = "configure"
    /\ uploaded_file = NoUpload
    /\ temp_file = 0 /\ temp_file_path = 0
    /\ ex_text = <<>> /\ images = <<>> /\ ocr_text = <<>>
    /\ ocr_calls = <<>> /\ ocr_outs = <<>> /\ rasterized = 0
    /\ step_raised = "" /\ ret = None /\ escaped = ""
    /\ text = None /\ markdown_content = None /\ html_content = None
    /\ questions = None
    /\ prompt = NoPrompt /\ response = NoResponse
    /\ st = {} /\ calls = <<>>

Init ==
    /\ FreshRun
    /\ API_KEY \in BOOLEAN
    /\ tmpfiles = {}

\* ---------------------------------------------------------- main, part 1
\* configure_genai(): lines 13-23, and main's early return, lines 187-188.
configure_genai ==
    /\ pc = "configure"
    /\ \E configure_raises \in BOOLEAN :
        IF ~API_KEY
        THEN /\ st' = st \cup {"error: API key is missing"}
             /\ pc' = "done"
        ELSE IF configure_raises
        THEN /\ st' = st \cup {"error: configuring Google API"}
             /\ pc' = "done"
        ELSE /\ st' = st
             /\ pc' = "upload"
    /\ UNCHANGED <<API_KEY, tmpfiles, uploaded_file, extractLocals,
                   frameVars, mainLocals, callVars, calls>>

\* st.file_uploader and "if uploaded_file is not None": lines 190-193.
file_uploader ==
    /\ pc = "upload"
    /\ \E f \in Uploads :
        /\ uploaded_file' = f
        /\ IF f.kind = "None"
           THEN pc' = "done" /\ calls' = calls
           ELSE pc' = "extract_tempfile" /\ calls' = Append(calls, "extract")
    /\ UNCHANGED <<API_KEY, tmpfiles, extractLocals, frameVars,
                   mainLocals, callVars, st>>

\* ------------------------------------------------- extract_text_from_pdf
\* (variant: the strip of line 49 left out)
text_return_nostrip(t) == Str(t)

\* line 49: return text.strip()
text_return(t) == Str(strip(t))

\* (variant: a page's OCR output put in front of the text so far)
ocr_append_front(so_far, out) == out \o <<"\n">> \o so_far

\* line 43: ocr_text += pytesseract.image_to_string(image) + "\n"
ocr_append(so_far, out) == so_far \o out \o <<"\n">>

\* (variant: the emptiness test of line 44 left out)
ocr_return_nocheck(t) == Str(strip(t))

\* lines 44-47: the value returned after the OCR loop.
ocr_return(t) == IF strip(t) = <<>> THEN None ELSE Str(strip(t))

\* NamedTemporaryFile picks a name no existing file has.
unused_name == CHOOSE n \in 1..(Cardinality(tmpfiles) + 1) : n \notin tmpfiles

\* line 29: tempfile.NamedTemporaryFile(delete=False, suffix=".pdf")
extract_tempfile ==
    /\ pc = "extract_tempfile"
    /\ \E raises \in BOOLEAN :
        IF raises
        THEN /\ step_raised' = "NamedTemporaryFile"
             /\ pc' = "extract_except"
             /\ UNCHANGED <<tmpfiles, temp_file>>
        ELSE /\ temp_file' = unused_name
             /\ tmpfiles' = tmpfiles \cup {unused_name}
             /\ step_raised' = step_raised
             /\ pc' = "extract_write"
    /\ UNCHANGED <<API_KEY, uploaded_file, temp_file_path, ex_text,
                   images, ocr_text, ocr_calls, ocr_outs, rasterized, ret,
                   escaped, mainLocals, callVars, st, calls>>

\* lines 30-31: temp_file.write(pdf_file.read()); temp_file_path = temp_file.name.
\* The with block closes the file either way; delete=False keeps it on disk.
extract_write ==
    /\ pc = "extract_write"
    /\ \E raises \in {"", "read", "write"} :
        IF raises # ""
        THEN /\ step_raised' = raises
             /\ pc' = "extract_except"
             /\ UNCHANGED temp_file_path
        ELSE /\ temp_file_path' = temp_file
             /\ step_raised' = step_raised
             /\ pc' = "extract_parse"
    /\ UNCHANGED <<API_KEY, tmpfiles, uploaded_file, temp_file, ex_text,
                   images, ocr_text, ocr_calls, ocr_outs, rasterized, ret,
                   escaped, mainLocals, callVars, st, calls>>

\* lines 34-39 and 49: PdfReader, the join over the pages, the strip test.
extract_parse ==
    /\ pc = "extract_parse"
    /\ \E raises \in BOOLEAN :
        IF raises
        THEN /\ step_raised' = "PdfReader"
             /\ pc' = "extract_except"
             /\ UNCHANGED <<ex_text, ret, st>>
        ELSE /\ ex_text' = embedded_text(uploaded_file.pages)
             /\ step_raised' = step_raised
             /\ IF strip(ex_text') = <<>>
                THEN /\ st' = st \cup {"warning: attempting OCR"}
                     /\ ret' = ret
                     /\ pc' = "extract_rasterize"
                ELSE /\ st' = st
                     /\ ret' = text_return(ex_text')
                     /\ pc' = "extract_finally"
    /\ UNCHANGED <<API_KEY, tmpfiles, uploaded_file, temp_file,
                   temp_file_path, images, ocr_text, ocr_calls, ocr_outs,
                   rasterized, escaped, mainLocals, callVars, calls>>

\* lines 40-41: images = convert_from_path(temp_file_path); ocr_text = "".
extract_rasterize ==
    /\ pc = "extract_rasterize"
    /\ rasterized' = rasterized + 1
    /\ \E raises \in BOOLEAN :
        IF raises
        THEN /\ step_raised' = "convert_from_path"
             /\ pc' = "extract_except"
             /\ UNCHANGED <<images, ocr_text>>
        ELSE /\ images' = [i \in 1..Len(uploaded_file.pages) |-> i]
             /\ ocr_text' = <<>>
             /\ step_raised' = step_raised
             /\ pc' = "extract_ocr"
    /\ UNCHANGED <<API_KEY, tmpfiles, uploaded_file, temp_file,
                   temp_file_path, ex_text, ocr_calls, ocr_outs, ret, escaped,
                   mainLocals, callVars, st, calls>>

\* lines 42-43: one turn of the loop over the images.
extract_ocr_page ==
    /\ pc = "extract_ocr"
    /\ Len(ocr_calls) < Len(images)
    /\ ocr_calls' = Append(ocr_calls, images[Len(ocr_calls) + 1])
    /\ \E raises \in BOOLEAN, out \in OcrTexts :
        IF raises
        THEN /\ step_raised' = "image_to_string"
             /\ pc' = "extract_except"
             /\ UNCHANGED <<ocr_text, ocr_outs>>
        ELSE /\ ocr_text' = ocr_append(ocr_text, out)
             /\ ocr_outs' = Append(ocr_outs, out)
             /\ step_raised' = step_raised
             /\ pc' = pc
    /\ UNCHANGED <<API_KEY, tmpfiles, uploaded_file, temp_file,
                   temp_file_path, ex_text, images, rasterized, ret, escaped,
                   mainLocals, callVars, st, calls>>

\* lines 44-47: after the loop.
extract_ocr_done ==
    /\ pc = "extract_ocr"
    /\ Len(ocr_calls) = Len(images)
    /\ ret' = ocr_return(ocr_text)
    /\ st' = IF ret'.kind = "None"
             THEN st \cup {"error: OCR failed to extract text"}
             ELSE st
    /\ pc' = "extract_finally"
    /\ UNCHANGED <<API_KEY, tmpfiles, uploaded_file, extractLocals,
                   step_raised, escaped, mainLocals, callVars, calls>>

\* lines 50-52: except Exception.
extract_except ==
    /\ pc = "extract_except"
    /\ st' = st \cup {"error: reading PDF"}
    /\ ret' = None
    /\ pc' = "extract_finally"
    /\ UNCHANGED <<API_KEY, tmpfiles, uploaded_file, extractLocals,
                   step_raised, escaped, mainLocals, callVars, calls>>

\* lines 53-56: finally. Reading temp_file_path while it is unbound raises
\* UnboundLocalError, which replaces the pending return.
extract_finally ==
    /\ pc = "extract_finally"
    /\ IF temp_file_path = 0
       THEN /\ escaped' = "UnboundLocalError"
            /\ tmpfiles' = tmpfiles
       ELSE /\ escaped' = escaped
            /\ tmpfiles' = tmpfiles \ {temp_file_path}
    /\ pc' = "extract_left"
    /\ UNCHANGED <<API_KEY, uploaded_file, extractLocals,
                   step_raised, ret, mainLocals, callVars, st, calls>>

\* ---------------------------------------------------------- main, part 2
\* (variant: the test left out)
always_truthy(v) == TRUE

\* lines 194 and 197: "if text:", "if markdown_content:"
truthy(v) == v.kind # "None" /\ v.val # <<>>

\* line 193-195: text = extract_text_from_pdf(uploaded_file); if text.
\* An exception that left the function ends the script run.
main_after_extract ==
    /\ pc = "extract_left"
    /\ IF escaped # ""
       THEN /\ pc' = "crashed"
            /\ UNCHANGED <<text, st>>
       ELSE /\ text' = ret
            /\ IF truthy(ret)
               THEN pc' = "call_mindmap" /\ st' = st \cup {"info: extracted"}
               ELSE pc' = "done" /\ st' = st
    /\ uploaded_file' = Consumed
    /\ temp_file' = 0 /\ temp_file_path' = 0
    /\ ex_text' = <<>> /\ images' = <<>> /\ ocr_text' = <<>>
    /\ ocr_calls' = <<>> /\ ocr_outs' = <<>> /\ rasterized' = 0
    /\ step_raised' = "" /\ ret' = None /\ escaped' = ""
    /\ UNCHANGED <<API_KEY, tmpfiles, markdown_content, html_content,
                   questions, callVars, calls>>

\* line 196: markdown_content = create_mindmap_markdown(text), the service
\* answering with one of `answers`.
call_create_mindmap(answers) ==
    /\ pc = "call_mindmap"
    /\ \E r \in answers :
        LET out == create_mindmap_markdown(text.val, r)
        IN  /\ response' = r
            /\ prompt' = out.prompt
            /\ markdown_content' = out.ret
            /\ ret' = out.ret
            /\ step_raised' = IF out.raised THEN r.kind ELSE ""
            /\ st' = st \cup out.st
            /\ calls' = Append(calls, "outline")
    /\ pc' = "mindmap_left"
    /\ UNCHANGED <<API_KEY, tmpfiles, uploaded_file, extractLocals,
                   escaped, text, html_content, questions>>

main_create_mindmap == call_create_mindmap(Responses)

\* lines 197-221: if markdown_content: the tabs, create_markmap_html, downloads.
main_render ==
    /\ pc = "mindmap_left"
    /\ IF truthy(markdown_content)
       THEN /\ html_content' = Str(create_markmap_html(markdown_content.val))
            /\ calls' = Append(calls, "render")
            /\ pc' = "tabs"
       ELSE /\ UNCHANGED <<html_content, calls>>
            /\ pc' = "done"
    /\ prompt' = NoPrompt /\ response' = NoResponse
    /\ step_raised' = "" /\ ret' = None
    /\ UNCHANGED <<API_KEY, tmpfiles, uploaded_file, extractLocals,
                   escaped, text, markdown_content, questions, st>>

\* lines 223-227: the Generate Questions button and the call behind it, the
\* service answering with one of `answers`.
call_generate_questions(answers) ==
    /\ pc = "tabs"
    /\ \E clicked \in BOOLEAN, r \in answers :
        IF clicked
        THEN LET out == generate_questions_from_text(text.val, r)
             IN  /\ response' = r
                 /\ prompt' = out.prompt
                 /\ questions' = out.ret
                 /\ ret' = out.ret
                 /\ step_raised' = IF out.raised THEN r.kind ELSE ""
                 /\ st' = st \cup out.st
                 /\ calls' = Append(calls, "questions")
                 /\ pc' = "questions_left"
        ELSE /\ UNCHANGED <<callVars, questions, ret, step_raised, st, calls>>
             /\ pc' = "done"
    /\ UNCHANGED <<API_KEY, tmpfiles, uploaded_file, extractLocals,
                   escaped, text, markdown_content, html_content>>

main_questions == call_generate_questions(Responses)

\* lines 228-233: the questions are listed, or the failure is reported.
main_show_questions ==
    /\ pc = "questions_left"
    /\ st' = st \cup {IF questions.kind = "list" /\ questions.val # <<>>
                      THEN "markdown: generated questions"
                      ELSE "error: failed to generate questions"}
    /\ prompt' = NoPrompt /\ response' = NoResponse
    /\ step_raised' = "" /\ ret' = None
    /\ pc' = "done"
    /\ UNCHANGED <<API_KEY, tmpfiles, uploaded_file, extractLocals,
                   escaped, mainLocals, calls>>

\* Streamlit runs the script again on the next interaction: a new run of
\* main in the same process, on the same disk.
rerun ==
    /\ pc \in {"done", "crashed"}
    /\ Cardinality(tmpfiles) < MaxTmp
    /\ pc' = "configure"
    /\ uploaded_file' = NoUpload
    /\ temp_file' = 0 /\ temp_file_path' = 0
    /\ ex_text' = <<>> /\ images' = <<>> /\ ocr_text' = <<>>
    /\ ocr_calls' = <<>> /\ ocr_outs' = <<>> /\ rasterized' = 0
    /\ step_raised' = "" /\ ret' = None /\ escaped' = ""
    /\ text' = None /\ markdown_content' = None /\ html_content' = None
    /\ questions' = None
    /\ prompt' = NoPrompt /\ response' = NoResponse
    /\ st' = {} /\ calls' = <<>>
    /\ UNCHANGED <<API_KEY, tmpfiles>>

Next ==
    \/ configure_genai
    \/ file_uploader
    \/ extract_tempfile
    \/ extract_write
    \/ extract_parse
    \/ extract_rasterize
    \/ extract_ocr_page
    \/ extract_ocr_done
    \/ extract_except
    \/ extract_finally
    \/ main_after_extract
    \/ main_create_mindmap
    \/ main_render
    \/ main_questions
    \/ main_show_questions
    \/ rerun

Spec == Init /\ [][Next]_vars

\* ------------------------------------------------ create_mindmap_markdown
\* on long texts: the call of line 196 with texts around the cap.
CharCycle == <<"a", "b", "\n">>
LongText(n, k) == [i \in 1..n |-> CharCycle[((i + k) % 3) + 1]]
LongLengths == {0, 1, max_chars - 1} \cup (max_chars..(max_chars + MaxExtra))
LongTexts == {LongText(n, k) : n \in LongLengths, k \in 0..2}

InitOutline ==
    /\ pc = "call_mindmap"
    /\ API_KEY = TRUE
    /\ tmpfiles = {}
    /\ uploaded_file = Consumed
    /\ temp_file = 0 /\ temp_file_path = 0
    /\ ex_text = <<>> /\ images = <<>> /\ ocr_text = <<>>
    /\ ocr_calls = <<>> /\ ocr_outs = <<>> /\ rasterized = 0
    /\ step_raised = "" /\ ret = None /\ escaped = ""
    /\ text \in {Str(t) : t \in LongTexts}
    /\ markdown_content = None /\ html_content = None /\ questions = None
    /\ prompt = NoPrompt /\ response = NoResponse
    /\ st = {"info: extracted"} /\ calls = <<"extract">>

NextOutline == call_create_mindmap(ResponsesUpTo(MaxFnReply))

SpecOutline == InitOutline /\ [][NextOutline]_vars

\* ------------------------------------------- generate_questions_from_text
\* on longer replies: the call of line 227.
InitQuestions ==
    /\ pc = "tabs"
    /\ API_KEY = TRUE
    /\ tmpfiles = {}
    /\ uploaded_file = Consumed
    /\ temp_file = 0 /\ temp_file_path = 0
    /\ ex_text = <<>> /\ images = <<>> /\ ocr_text = <<>>
    /\ ocr_calls = <<>> /\ ocr_outs = <<>> /\ rasterized = 0
    /\ step_raised = "" /\ ret = None /\ escaped = ""
    /\ text \in {Str(<<"a">>), Str(<<"b">>), Str(<<"a", "b">>),
                 Str(<<"a", "\n", "b">>)}
    /\ markdown_content = Str(<<"a">>)
    /\ html_content = Str(create_markmap_html(<<"a">>))
    /\ questions = None
    /\ prompt = NoPrompt /\ response = NoResponse
    /\ st = {"info: extracted"} /\ calls = <<"extract", "outline", "render">>

NextQuestions == call_generate_questions(ResponsesUpTo(MaxFnReply))

SpecQuestions == InitQuestions /\ [][NextQuestions]_vars

\* ---------------------------------------------------- create_markmap_html
\* on outlines over the characters the escaping is about: line 202.
Outlines == {None} \cup {Str(m) : m \in StringsOver(MdChars, MaxMd)}

InitEscape ==
    /\ pc = "mindmap_left"
    /\ API_KEY = TRUE
    /\ tmpfiles = {}
    /\ uploaded_file = Consumed
    /\ temp_file = 0 /\ temp_file_path = 0
    /\ ex_text = <<>> /\ images = <<>> /\ ocr_text = <<>>
    /\ ocr_calls = <<>> /\ ocr_outs = <<>> /\ rasterized = 0
    /\ step_raised = "" /\ ret = None /\ escaped = ""
    /\ text = Str(<<"a">>)
    /\ markdown_content \in Outlines
    /\ html_content = None /\ questions = None
    /\ prompt = NoPrompt /\ response = NoResponse
    /\ st = {"info: extracted"} /\ calls = <<"extract", "outline">>

NextEscape == main_render

SpecEscape == InitEscape /\ [][NextEscape]_vars

\* ================================================================ claims
\* Vocabulary of the properties, stated without the operators of the model.
AllSpace(s) == \A i \in 1..Len(s) : s[i] \in Whitespace

\* r is s without its leading and trailing whitespace, and is not empty.
IsTrimOf(r, s) ==
    /\ r # <<>>
    /\ r[1] \notin Whitespace
    /\ r[Len(r)] \notin Whitespace
    /\ \E i \in 1..Len(s) :
        /\ i + Len(r) - 1 <= Len(s)
        /\ \A k \in 1..Len(r) : s[i + k - 1] = r[k]
        /\ \A k \in 1..(i - 1) : s[k] \in Whitespace
        /\ \A k \in (i + Len(r))..Len(s) : s[k] \in Whitespace

\* The strings of a list, in order, with one newline between neighbours.
RECURSIVE WithNewlines(_)
WithNewlines(parts) ==
    IF Len(parts) = 0 THEN <<>>
    ELSE IF Len(parts) = 1 THEN parts[1]
    ELSE WithNewlines(SubSeq(parts, 1, Len(parts) - 1))
             \o <<"\n">> \o parts[Len(parts)]

\* The non-empty page texts of the upload, in page order.
TextPages ==
    LET p == uploaded_file.pages
        keep == {i \in 1..Len(p) : Len(p[i]) > 0}
        RECURSIVE Pick(_)
        Pick(i) == IF i > Len(p) THEN <<>>
                   ELSE IF i \in keep THEN <<p[i]>> \o Pick(i + 1)
                   ELSE Pick(i + 1)
    IN  Pick(1)

InExtract ==
    pc \in {"extract_tempfile", "extract_write", "extract_parse",
            "extract_rasterize", "extract_ocr", "extract_except",
            "extract_finally"}

\* C1: whenever control is outside extract_text_from_pdf (before a call, or
\* after it was left by a return or by an exception), no temporary file
\* exists on disk; so no sequence of invocations leaves one behind.
C1_TempFileGoneOnEveryExit == ~InExtract => tmpfiles = {}

\* C6: when a step inside extract_text_from_pdf, create_mindmap_markdown or
\* generate_questions_from_text raised, the function is left by a return of
\* its failure value with its error message emitted, never by an exception.
C6_NoExceptionLeavesTheFunction ==
    /\ pc = "extract_left" =>
          /\ escaped = ""
          /\ step_raised # "" => ret.kind = "None" /\ "error: reading PDF" \in st
    /\ pc = "mindmap_left" =>
          /\ escaped = ""
          /\ step_raised # "" =>
                ret.kind = "None" /\ "error: generating mindmap" \in st
    /\ pc = "questions_left" =>
          /\ escaped = ""
          /\ step_raised # "" =>
                ret.kind = "None" /\ "error: generating questions" \in st

\* The text between the grave accents of the template literal of the page.
Embedded ==
    SubSeq(html_content.val, Len(HtmlHead) + 1,
           Len(html_content.val) - Len(HtmlTail))

\* Position i of s starts a grave accent or a "${".
Breaks(s, i) ==
    \/ s[i] = Backtick
    \/ s[i] = "$" /\ i < Len(s) /\ s[i + 1] = "{"

\* s with one backslash put before every position that Breaks, from i on.
RECURSIVE OneBackslashBeforeEach(_, _)
OneBackslashBeforeEach(s, i) ==
    IF i > Len(s) THEN <<>>
    ELSE (IF Breaks(s, i) THEN <<"\\", s[i]>> ELSE <<s[i]>>)
             \o OneBackslashBeforeEach(s, i + 1)

\* The backslashes that stand immediately before position i of s.
RECURSIVE BackslashesBefore(_, _)
BackslashesBefore(s, i) ==
    IF i > 1 /\ s[i - 1] = "\\" THEN 1 + BackslashesBefore(s, i - 1) ELSE 0

C2_EscapedExactlyOnce ==
    pc = "tabs" => Embedded = OneBackslashBeforeEach(markdown_content.val, 1)

C2_NothingLeftUnescaped ==
    pc = "tabs" =>
        \A i \in 1..Len(Embedded) :
            Breaks(Embedded, i) => BackslashesBefore(Embedded, i) % 2 = 1

\* C2: the text create_markmap_html embeds is the markdown with exactly one
\* backslash added before every grave accent and every "${" and nothing else
\* changed, and in it no grave accent or "${" is left unescaped (each has
\* an odd number of backslashes before it).
C2_EscapedOnceAndSafe == C2_EscapedExactlyOnce /\ C2_NothingLeftUnescaped

\* ------------------------------------------------ extract_text_from_pdf
\* The call has been left and no step of it raised.
ExtractCompleted == pc = "extract_left" /\ step_raised = ""

NoOcr == rasterized = 0 /\ ocr_calls = <<>>

\* C3 as stated: if some page yields non-empty text, the value returned is
\* the non-empty pages' text joined by newlines, and no rasterization or OCR
\* took place.
C3_AsStated ==
    (ExtractCompleted /\ TextPages # <<>>) =>
        /\ ret.kind = "str" /\ ret.val = WithNewlines(TextPages)
        /\ NoOcr

\* C3: if the non-empty pages' text, joined by newlines in page order, is not
\* all whitespace, no rasterization or OCR takes place during the call, and
\* a call in which no step raises returns that text with its leading and
\* trailing whitespace removed.
C3_EmbeddedTextWithoutOcr ==
    (pc = "extract_left" /\ ~AllSpace(WithNewlines(TextPages))) =>
        /\ NoOcr
        /\ step_raised = "" =>
              /\ escaped = ""
              /\ ret.kind = "str"
              /\ IsTrimOf(ret.val, WithNewlines(TextPages))

C3_Witness ==
    /\ ExtractCompleted
    /\ Len(TextPages) = 2
    /\ ret.kind = "str"
    /\ ret.val # WithNewlines(TextPages)
    /\ NoOcr

\* C4: a result of extract_text_from_pdf is the failure value or a string
\* that is not empty and not all whitespace, and it is the failure value
\* whenever the embedded text and the OCR text are both blank.
C4_ResultNeverBlank ==
    (pc = "extract_left" /\ escaped = "") =>
        /\ ret.kind = "None" \/ (ret.kind = "str" /\ ~AllSpace(ret.val))
        /\ (AllSpace(WithNewlines(TextPages)) /\ AllSpace(WithNewlines(ocr_outs)))
              => ret.kind = "None"

C4_Witness ==
    /\ ExtractCompleted
    /\ Len(ocr_outs) = 2
    /\ \E i \in 1..2 : ocr_outs[i] # <<>>
    /\ ret.kind = "None"

\* C10 as stated: if no page yields text, the document is rasterized, OCR is
\* invoked once per page image in page order, and the text returned is the
\* OCR outputs joined by newlines.
C10_AsStated ==
    (ExtractCompleted /\ TextPages = <<>>) =>
        /\ rasterized = 1
        /\ ocr_calls = [i \in 1..Len(uploaded_file.pages) |-> i]
        /\ ret.kind = "str" => ret.val = WithNewlines(ocr_outs)

\* C10: if no page yields text and no step raises, the document is rasterized
\* once, OCR is invoked once per page image in page order, and the value
\* returned is the OCR outputs joined by newlines in that order with leading
\* and trailing whitespace removed, or the failure value if that is blank.
C10_OcrPerPageInOrder ==
    (ExtractCompleted /\ TextPages = <<>>) =>
        /\ escaped = ""
        /\ rasterized = 1
        /\ ocr_calls = [i \in 1..Len(uploaded_file.pages) |-> i]
        /\ Len(ocr_outs) = Len(ocr_calls)
        /\ ret.kind = "None" <=> AllSpace(WithNewlines(ocr_outs))
        /\ ret.kind = "str" => IsTrimOf(ret.val, WithNewlines(ocr_outs))

C10_Witness ==
    /\ ExtractCompleted
    /\ TextPages = <<>>
    /\ Len(ocr_outs) = 2
    /\ ocr_outs[1] # ocr_outs[2]
    /\ ret.kind = "str"
    /\ ret.val # WithNewlines(ocr_outs)

\* ------------------------------------------------------------------ main
IsText(v) == v.kind = "str" /\ Len(v.val) > 0

\* C5: a stage is entered only after every earlier stage of the run
\* succeeded: the outline call only after extraction returned text, rendering
\* and the question call only after the outline call returned an outline.
C5_StagesOnlyAfterSuccess ==
    \A i \in 1..Len(calls) :
        /\ calls[i] = "outline" =>
              /\ IsText(text)
              /\ \E j \in 1..(i - 1) : calls[j] = "extract"
        /\ calls[i] \in {"render", "questions"} =>
              /\ IsText(text)
              /\ IsText(markdown_content)
              /\ \E j \in 1..(i - 1) : calls[j] = "outline"

C5_Witness ==
    /\ calls = <<"extract", "outline", "render", "questions">>
    /\ pc = "questions_left"

\* ---------------------------------------- create_mindmap_markdown's reply
\* C8: create_mindmap_markdown returns the failure value exactly when the
\* call raised or the reply is absent, empty or all whitespace, and otherwise
\* the reply without its leading and trailing whitespace.
C8_OutlineIsTheTrimmedReply ==
    pc = "mindmap_left" =>
        /\ ret.kind = "None" <=>
              (response.kind \in {"call_raise", "none"} \/ AllSpace(response.val))
        /\ ret.kind # "None" =>
              ret.kind = "str" /\ IsTrimOf(ret.val, response.val)

C8_Witness ==
    /\ pc = "mindmap_left"
    /\ response.kind = "text"
    /\ ret.kind = "str"
    /\ Len(ret.val) < Len(response.val)

\* ------------------------------------ generate_questions_from_text's reply
\* The lines of s: the text before each newline, and what follows the last
\* newline when that is not empty.
RECURSIVE LinesFrom(_, _)
LinesFrom(s, from) ==
    LET ends == {i \in from..Len(s) : s[i] = "\n"}
    IN  IF ends = {}
        THEN (IF from > Len(s) THEN <<>> ELSE <<SubSeq(s, from, Len(s))>>)
        ELSE LET e == CHOOSE i \in ends : \A j \in ends : i <= j
             IN  <<SubSeq(s, from, e - 1)>> \o LinesFrom(s, e + 1)

Submitted == SubSeq(prompt, 2, Len(prompt) - 1)

\* C7: the text submitted is the input when the input has at most max_chars
\* characters, and otherwise its first max_chars characters followed by
\* three full stops; the notice is emitted exactly for the longer inputs.
C7_TruncatedToTheCap ==
    pc = "mindmap_left" =>
        LET input == text.val
            sent == Submitted
        IN  /\ Len(input) <= 30000 => sent = input
            /\ Len(input) > 30000 =>
                  /\ Len(sent) = 30003
                  /\ SubSeq(sent, 1, 30000) = SubSeq(input, 1, 30000)
                  /\ SubSeq(sent, 30001, 30003) = <<".", ".", ".">>
            /\ "warning: text was truncated" \in st <=> Len(input) > 30000

C7_Witness ==
    /\ pc = "mindmap_left"
    /\ Len(text.val) = 30001
    /\ Len(Submitted) = 30003
    /\ "warning: text was truncated" \in st

====
